---- MODULE Spec2Model ----
(***************************************************************************)
(* gpshud (myhud.py): a head-up display fed by gpsd reports.               *)
(*                                                                         *)
(* The model follows the two classes of myhud.py:                          *)
(*   HeadUpDisplay  the widget: the last known telemetry (last_mode,       *)
(*                  last_status, last_speed, last_heading, latitude,       *)
(*                  longitude, altitude, skyview, last_tpv) and            *)
(*                  update_data(), which rewrites the labels from it;      *)
(*   Main           run() (connect, start-up loop, Gtk main loop) and the  *)
(*                  callbacks handle_response / handle_hangup / destroy.   *)
(*                                                                         *)
(* Encoding.  An optional value (a report field that may be absent, a      *)
(* Python None) is a sequence: <<>> when absent, <<v>> when present.       *)
(* Angles are integers in half degrees (45 is 22.5 degrees), so that the   *)
(* compass boundaries 22.5 + 45k are representable; every other quantity   *)
(* is an integer in its own unit.  A Python call is an operator that       *)
(* returns [err |-> "none", value |-> v] or [err |-> <exception name>].    *)
(***************************************************************************)
EXTENDS Integers, Sequences, FiniteSets, TLC

VARIABLES
    widget,      \* Main.widget: the HeadUpDisplay fields
    display,     \* the labels of the builder: Heading, Speed, Unit, Date, Fix, Position
    data,        \* daemon.data: the last report read from gpsd (optional)
    pc,          \* where Main.run() is
    watching,    \* whether the IO_IN watch of handle_response is installed
    err,         \* the exception the last handler raised, "none" otherwise
    delivered,   \* how many reports gpsd has delivered so far
    dispatched,  \* serial numbers of the reports passed to update_speed/update_sky
    sun          \* what astral answered in the last is_day() (optional)

vars == <<widget, display, data, pc, watching, err, delivered, dispatched, sun>>

\* Reports delivered in one run of the model.
MaxReports == 2

None == <<>>

Some(v) == <<v>>

Return(v) == [err |-> "none", value |-> v]

Raise(e) == [err |-> e]

----------------------------------------------------------------------------
(* Module-level tables *)

GNSS_FLAG_ISO ==
    [g \in {0, 2, 3, 4, 5, 6} |->
        CASE g = 0 -> "US" [] g = 2 -> "EU" [] g = 3 -> "CN"
          [] g = 4 -> "IN" [] g = 5 -> "JP" [] g = 6 -> "RU"]

\* The regional-indicator flag of the ISO code; SBAS (1) is the satellite glyph.
GNSS_FLAG ==
    [g \in (DOMAIN GNSS_FLAG_ISO) \cup {1} |->
        IF g = 1 THEN "SATELLITE" ELSE "flag " \o GNSS_FLAG_ISO[g]]

\* gps.MPS_TO_MPH, gps.MPS_TO_KPH, gps.MPS_TO_KNOTS, times 10000.
conversions ==
    [u \in {"mph", "km/h", "knots"} |->
        CASE u = "mph" -> 22369 [] u = "km/h" -> 36000 [] u = "knots" -> 19438]

\* 1 and gps.METERS_TO_FEET, times 10000.
alt_conversions ==
    [u \in {"m", "ft"} |-> IF u = "m" THEN 10000 ELSE 32808]

\* str.upper() on the speed unit labels.
upper(u) ==
    CASE u = "mph" -> "MPH" [] u = "km/h" -> "KM/H" [] u = "knots" -> "KNOTS"

\* The unit pairs the command line can select.
UnitChoices ==
    { [speed_unit |-> "mph", altitude_unit |-> "ft"],
      [speed_unit |-> "knots", altitude_unit |-> "ft"],
      [speed_unit |-> "km/h", altitude_unit |-> "m"] }

----------------------------------------------------------------------------
(* format_latitude / format_longitude: magnitude and hemisphere *)

Abs(x) == IF x >= 0 THEN x ELSE 0 - x

format_latitude(latitude) ==
    [deg |-> Abs(latitude), hemisphere |-> IF latitude >= 0 THEN "N" ELSE "S"]

format_longitude(longitude) ==
    [deg |-> Abs(longitude), hemisphere |-> IF longitude >= 0 THEN "E" ELSE "W"]

\* '%.0f' of x / 10000 for x >= 0.
Round10000(x) == (x + 5000) \div 10000

----------------------------------------------------------------------------
(* HeadUpDisplay.get_speed_text, get_direction_text *)

get_speed_text(w, speed) ==
    IF w.last_mode \in {0, 1}
    THEN "-"
    ELSE ToString(Round10000(speed * conversions[w.speed_unit]))

DirectionTable == <<"N", "NE", "E", "SE", "S", "SW", "W", "NW", "N">>

\* heading is in half degrees: (heading + 22.5) // 45 is (heading + 45) \div 90.
get_direction_text_NoOffset(w, heading) ==
    IF w.last_mode \in {0, 1}
    THEN "-"
    ELSE DirectionTable[(heading \div 90) + 1]

get_direction_text(w, heading) ==
    IF w.last_mode \in {0, 1}
    THEN "-"
    ELSE DirectionTable[((heading + 45) \div 90) + 1]

----------------------------------------------------------------------------
(* HeadUpDisplay.is_day *)

\* astral.sun.elevation(observer, dateandtime=None): it reads observer.latitude,
\* which only an Observer has.
astral_sun_elevation(observer, env) ==
    IF observer.type = "Observer"
    THEN Return(env.noon_elevation)
    ELSE Raise("AttributeError")

\* env is astral's answer for the location and date: daylight is "up" when
\* sunrise <= now <= sunset, "down" when now is outside, "undefined" when
\* astral.sun.daylight raises ValueError (the sun does not rise or set).
is_day(w, env) ==
    IF w.longitude = None \/ w.latitude = None
    THEN Return(TRUE)
    ELSE LET loc == [type |-> "Observer",
                     latitude |-> w.latitude[1], longitude |-> w.longitude[1]]
         IN  IF env.daylight # "undefined"
             THEN Return(env.daylight = "up")
             ELSE LET noon == [type |-> "datetime", observer |-> loc]
                      elevation == astral_sun_elevation(noon, env)
                  IN  IF elevation.err # "none"
                      THEN Raise(elevation.err)
                      ELSE IF elevation.value < 0
                           THEN Return(FALSE)
                           ELSE Return(TRUE)

----------------------------------------------------------------------------
(* The fix text of update_data *)

StatusTable ==
    <<"Unknown", "Normal", "DGPS", "RTK Fixed", "RTK Floating", "DR",
      "GNSS+DR", "Time (surveyed)", "Simulated", "P(Y)">>

\* A mutation: the mode-1 branch appends instead of replacing.
FixStatusMode_AppendNoFix(last_status, last_mode) ==
    LET fixtext == IF last_status # 0 THEN StatusTable[last_status + 1] ELSE ""
    IN  IF last_mode \in {2, 3}
        THEN fixtext \o " " \o ToString(last_mode) \o "D fix"
        ELSE IF last_mode = 1
             THEN fixtext \o "No fix"
             ELSE "Unknown fix"

\* Lines 186-198: the status label, then the mode.
FixStatusMode(last_status, last_mode) ==
    LET fixtext == IF last_status # 0 THEN StatusTable[last_status + 1] ELSE ""
    IN  IF last_mode \in {2, 3}
        THEN fixtext \o " " \o ToString(last_mode) \o "D fix"
        ELSE IF last_mode = 1
             THEN "No fix"
             ELSE "Unknown fix"

\* The indices of the satellite entries that carry a gnssid.
WithGnssid(sats) == {i \in DOMAIN sats : sats[i].gnssid # None}

\* ucount / ncount: per constellation, how many entries are used / seen.
ucount(sats, g) ==
    Cardinality({i \in WithGnssid(sats) : sats[i].gnssid[1] = g /\ sats[i].used})

ncount(sats, g) ==
    Cardinality({i \in WithGnssid(sats) : sats[i].gnssid[1] = g})

\* The keys of ucount in insertion order: constellations by first appearance.
RECURSIVE GnssOrder(_)
GnssOrder(sats) ==
    IF sats = <<>>
    THEN <<>>
    ELSE LET n == Len(sats)
             before == GnssOrder(SubSeq(sats, 1, n - 1))
             last == sats[n]
         IN  IF last.gnssid = None
                \/ \E i \in DOMAIN before : before[i] = last.gnssid[1]
             THEN before
             ELSE Append(before, last.gnssid[1])

\* sigstrength: PRN -> ss over the entries with a gnssid and an ss; a later
\* entry with the same PRN overwrites an earlier one.
SigIndices(sats) == {i \in WithGnssid(sats) : sats[i].ss # None}

UsedSigIndices(sats) == {i \in SigIndices(sats) : sats[i].used}

LastOf(I) == CHOOSE i \in I : \A j \in I : j <= i

StrengthMap(sats, I) ==
    [p \in {sats[i].PRN : i \in I} |->
        sats[LastOf({i \in I : sats[i].PRN = p})].ss[1]]

sigstrength(sats) == StrengthMap(sats, SigIndices(sats))

usedsigstrength(sats) == StrengthMap(sats, UsedSigIndices(sats))

RECURSIVE SumOver(_, _)
SumOver(f, S) ==
    IF S = {}
    THEN 0
    ELSE LET p == CHOOSE q \in S : TRUE
         IN  f[p] + SumOver(f, S \ {p})

\* min, max and, for more than one sample, the mean (sum over n) and the sample
\* variance (numerator over n * (n - 1)) of the values of a strength map.
SnrLine(label, strengths) ==
    LET P == DOMAIN strengths
        n == Cardinality(P)
        sum == SumOver(strengths, P)
        sumsq == SumOver([p \in P |-> strengths[p] * strengths[p]], P)
    IN  [label |-> label,
         min |-> CHOOSE v \in {strengths[p] : p \in P} :
                     \A q \in P : v <= strengths[q],
         max |-> CHOOSE v \in {strengths[p] : p \in P} :
                     \A q \in P : v >= strengths[q],
         mean |-> IF n > 1 THEN Some(<<sum, n>>) ELSE None,
         stdev2 |-> IF n > 1 THEN Some(<<n * sumsq - sum * sum, n * (n - 1)>>)
                    ELSE None]

\* svlist: "{ucount} {flag}" for each constellation with a used satellite.
RECURSIVE svlist(_, _)
svlist(sats, order) ==
    IF order = <<>>
    THEN <<>>
    ELSE LET g == Head(order)
             rest == svlist(sats, Tail(order))
         IN  IF ucount(sats, g) > 0
             THEN <<[count |-> ucount(sats, g), flag |-> GNSS_FLAG[g]]>> \o rest
             ELSE rest

NoSatelliteText ==
    [svs |-> None, breakdown |-> <<>>, all_snr |-> None, used_snr |-> None]

\* Lines 200-215: the two strength dictionaries update_data() builds; they are
\* built only inside the uSat/nSat test.
SnrMaps(skyview) ==
    IF skyview # None /\ skyview[1].uSat # None /\ skyview[1].nSat # None
       /\ skyview[1].satellites # None
    THEN [all |-> sigstrength(skyview[1].satellites[1]),
          used |-> usedsigstrength(skyview[1].satellites[1])]
    ELSE [all |-> <<>>, used |-> <<>>]

\* Lines 200-240: the satellite part of the fix text.
SatelliteText(skyview) ==
    IF skyview # None /\ skyview[1].uSat # None /\ skyview[1].nSat # None
    THEN IF skyview[1].satellites = None
         THEN Raise("AttributeError")
         ELSE LET sats == skyview[1].satellites[1]
                  all == SnrMaps(skyview).all
                  used == SnrMaps(skyview).used
              IN  Return(
                    [svs |-> Some(<<skyview[1].uSat[1], skyview[1].nSat[1]>>),
                     breakdown |-> svlist(sats, GnssOrder(sats)),
                     all_snr |-> IF DOMAIN all # {}
                                 THEN Some(SnrLine("All SNR", all)) ELSE None,
                     used_snr |-> IF DOMAIN used # {}
                                  THEN Some(SnrLine("Used SNR", used)) ELSE None])
    ELSE Return(NoSatelliteText)

----------------------------------------------------------------------------
(* HeadUpDisplay.update_data: the labels, in the order the code writes them *)

DayColors == [color |-> "#FFFFFF", unitcolor |-> "#888888"]

NightColors == [color |-> "#BBBBBB", unitcolor |-> "#666666"]

\* Whether is_day() asks astral: both coordinates are known.
ConsultsAstral(w) == w.latitude # None /\ w.longitude # None

\* Lines 242-256: the position text and the error estimates read from last_tpv.
PositionLines(w) ==
    IF w.latitude # None /\ w.longitude # None
    THEN <<format_latitude(w.latitude[1]), format_longitude(w.longitude[1])>>
         \o (IF w.altitude # None /\ w.altitude[1] # 0
             THEN <<[alt |-> w.altitude[1] * alt_conversions[w.altitude_unit],
                     epv |-> IF w.last_tpv # None /\ w.last_tpv[1].epv # None
                             THEN Some(w.last_tpv[1].epv[1]
                                       * alt_conversions[w.altitude_unit])
                             ELSE None,
                     unit |-> w.altitude_unit]>>
             ELSE <<>>)
    ELSE <<>>

CepLine(w) ==
    IF w.latitude # None /\ w.longitude # None
       /\ w.last_tpv # None /\ w.last_tpv[1].eph # None
    THEN Some([eph |-> w.last_tpv[1].eph[1] * alt_conversions[w.altitude_unit],
               unit |-> w.altitude_unit])
    ELSE None

\* The result is the labels as update_data leaves them, the exception it raised
\* (the labels written before it stay written) and what is_day() was answered.
update_data(w, disp, env) ==
    LET day == is_day(w, env)
        asked == IF ConsultsAstral(w) THEN Some(env) ELSE None
    IN  IF day.err # "none"
        THEN [display |-> disp, err |-> day.err, sun |-> asked]
        ELSE
        LET c == IF day.value THEN DayColors ELSE NightColors
            d1 == [disp EXCEPT
                     !.Heading = [color |-> c.color,
                                  text |-> get_direction_text(w, w.last_heading)],
                     !.Speed = [color |-> c.color,
                                text |-> get_speed_text(w, w.last_speed)],
                     !.Unit = [color |-> c.unitcolor, text |-> upper(w.speed_unit)]]
        IN  IF w.last_mode >= 2 /\ (w.last_tpv = None \/ w.last_tpv[1].time = None)
            THEN [display |-> d1, err |-> "AttributeError", sun |-> asked]
            ELSE
            LET now == IF w.last_mode >= 2 /\ w.last_tpv[1].time[1] # ""
                       THEN "gps time" ELSE "system clock"
                d2 == [d1 EXCEPT !.Date = [color |-> c.color, text |-> now]]
                sat == SatelliteText(w.skyview)
            IN  IF sat.err # "none"
                THEN [display |-> d2, err |-> sat.err, sun |-> asked]
                ELSE [display |->
                        [d2 EXCEPT
                           !.Fix = [color |-> c.color,
                                    text |->
                                      [status_mode |->
                                          FixStatusMode(w.last_status, w.last_mode),
                                       svs |-> sat.value.svs,
                                       breakdown |-> sat.value.breakdown,
                                       all_snr |-> sat.value.all_snr,
                                       used_snr |-> sat.value.used_snr,
                                       cep |-> CepLine(w)]],
                           !.Position = [color |-> c.color,
                                         text |-> PositionLines(w)]],
                      err |-> "none", sun |-> asked]

----------------------------------------------------------------------------
(* HeadUpDisplay.__init__ *)

\* The labels as the glade file leaves them, before the first update_data().
BlankLabel == [color |-> "", text |-> ""]

BlankDisplay ==
    [Heading |-> BlankLabel, Speed |-> BlankLabel, Unit |-> BlankLabel,
     Date |-> BlankLabel, Fix |-> BlankLabel, Position |-> BlankLabel]

NoAstral == [daylight |-> "up", noon_elevation |-> 1]

HeadUpDisplay(units) ==
    [speed_unit |-> units.speed_unit, altitude_unit |-> units.altitude_unit,
     last_speed |-> 0, last_heading |-> 0, last_mode |-> 0, last_status |-> 0,
     latitude |-> None, longitude |-> None, altitude |-> None,
     skyview |-> None, last_tpv |-> None]

----------------------------------------------------------------------------
(* Main.update_sky, Main.update_speed *)

update_sky(w, disp, report, env) ==
    LET w1 == [w EXCEPT !.skyview = Some(report)]
        u == update_data(w1, disp, env)
    IN  [widget |-> w1, display |-> u.display, err |-> u.err, sun |-> u.sun]

\* A variant that copies lat and lon from the report whether present or not.
update_speed_Overwrite(w, disp, report, env, s) ==
    LET w1 == [w EXCEPT !.last_tpv = Some(report)]
    IN  IF report.mode = None
        THEN [widget |-> w1, display |-> disp, err |-> "AttributeError", sun |-> s]
        ELSE
        LET w2 == [w1 EXCEPT
                     !.last_mode = report.mode[1],
                     !.last_status = IF report.status # None
                                     THEN report.status[1] ELSE @,
                     !.last_speed = IF report.speed # None
                                    THEN report.speed[1] ELSE @,
                     !.last_heading = IF report.track # None
                                      THEN report.track[1] ELSE @,
                     !.latitude = report.lat,
                     !.longitude = report.lon,
                     !.altitude = IF report.altHAE # None
                                  THEN Some(report.altHAE[1]) ELSE @]
            u == update_data(w2, disp, env)
        IN  [widget |-> w2, display |-> u.display, err |-> u.err, sun |-> u.sun]

\* s is the previous answer of astral, kept when update_data() is not reached.
update_speed(w, disp, report, env, s) ==
    LET w1 == [w EXCEPT !.last_tpv = Some(report)]
    IN  IF report.mode = None
        THEN [widget |-> w1, display |-> disp, err |-> "AttributeError", sun |-> s]
        ELSE
        LET w2 == [w1 EXCEPT
                     !.last_mode = report.mode[1],
                     !.last_status = IF report.status # None
                                     THEN report.status[1] ELSE @,
                     !.last_speed = IF report.speed # None
                                    THEN report.speed[1] ELSE @,
                     !.last_heading = IF report.track # None
                                      THEN report.track[1] ELSE @,
                     !.latitude = IF report.lat # None
                                  THEN Some(report.lat[1]) ELSE @,
                     !.longitude = IF report.lon # None
                                   THEN Some(report.lon[1]) ELSE @,
                     !.altitude = IF report.altHAE # None
                                  THEN Some(report.altHAE[1]) ELSE @]
            u == update_data(w2, disp, env)
        IN  [widget |-> w2, display |-> u.display, err |-> u.err, sun |-> u.sun]

\* The class test of run() and handle_response(): TPV, SKY, anything else.
Dispatch(w, disp, report, env, s) ==
    IF report.class = "TPV"
    THEN update_speed(w, disp, report, env, s)
    ELSE IF report.class = "SKY"
         THEN update_sky(w, disp, report, env)
         ELSE [widget |-> w, display |-> disp, err |-> "none", sun |-> s]

IsDispatched(report) == report.class \in {"TPV", "SKY"}

----------------------------------------------------------------------------
(* The reports gpsd delivers.  A report is a record of optional fields; the  *)
(* fields of the other class are absent.                                    *)

TPVFields ==
    {"mode", "status", "speed", "track", "lat", "lon", "altHAE", "eph", "epv",
     "time"}

SKYFields == {"uSat", "nSat", "satellites"}

AbsentReport(class) ==
    [f \in {"class"} \cup TPVFields \cup SKYFields |->
        IF f = "class" THEN class ELSE None]

\* A full TPV report: status DGPS, 5 m/s, heading 45 degrees, 45 N 90 W, 100 m.
FullTPV(mode) ==
    [AbsentReport("TPV") EXCEPT
        !.mode = Some(mode), !.status = Some(2), !.speed = Some(5),
        !.track = Some(90), !.lat = Some(45), !.lon = Some(0 - 90),
        !.altHAE = Some(100), !.eph = Some(3), !.epv = Some(4),
        !.time = Some("2020-01-01T12:00:00.000Z")]

\* A later full TPV report with another value in every field.
NextTPV ==
    [AbsentReport("TPV") EXCEPT
        !.mode = Some(3), !.status = Some(1), !.speed = Some(20),
        !.track = Some(675), !.lat = Some(0 - 78), !.lon = Some(15),
        !.altHAE = Some(250), !.eph = Some(7), !.epv = Some(9),
        !.time = Some("2020-01-01T12:00:01.000Z")]

Without(report, f) == [report EXCEPT ![f] = None]

Only(report, F) ==
    [f \in DOMAIN report |-> IF f \in F \cup {"class"} THEN report[f] ELSE None]

TPVReports ==
    {FullTPV(mode) : mode \in 0..3}
    \cup {Without(NextTPV, f) : f \in TPVFields}
    \cup {Only(NextTPV, {"mode", f}) : f \in TPVFields}
    \cup {Only(NextTPV, {"mode", "time", "speed"})}
    \cup {Only(FullTPV(1), {"mode"})}

Sat(gnssid, PRN, used, ss) ==
    [gnssid |-> gnssid, PRN |-> PRN, used |-> used, ss |-> ss]

ExampleSatellites ==
    <<Sat(Some(0), 5, TRUE, Some(30)), Sat(Some(0), 7, FALSE, Some(20)),
      Sat(Some(2), 301, TRUE, Some(40))>>

\* The satellite lists of the SKY reports: the three-satellite example (two
\* GPS, one Galileo), an entry without gnssid, an SBAS entry without ss.
SatelliteLists ==
    { <<>>,
      ExampleSatellites,
      <<Sat(None, 9, TRUE, Some(35))>>,
      <<Sat(Some(1), 131, TRUE, None), Sat(Some(6), 70, FALSE, Some(25))>> }

SKY(uSat, nSat, satellites) ==
    [AbsentReport("SKY") EXCEPT
        !.uSat = uSat, !.nSat = nSat, !.satellites = satellites]

UsedCount(sats) == Cardinality({i \in DOMAIN sats : sats[i].used})

SKYReports ==
    {SKY(Some(UsedCount(sats)), Some(Len(sats)), Some(sats)) : sats \in SatelliteLists}
    \cup {SKY(None, None, Some(ExampleSatellites)),
          SKY(Some(2), None, Some(ExampleSatellites)),
          SKY(Some(0), Some(0), None),
          SKY(None, None, None)}

\* VERSION, DEVICES, WATCH and the like: neither TPV nor SKY.
OtherReports == {AbsentReport("VERSION")}

Reports == TPVReports \cup SKYReports \cup OtherReports

\* What astral can answer: the sun rises and sets (now inside or outside the
\* day), or it does neither and is above or below the horizon at noon.
Envs ==
    { [daylight |-> "up", noon_elevation |-> 1],
      [daylight |-> "down", noon_elevation |-> 1],
      [daylight |-> "undefined", noon_elevation |-> 1],
      [daylight |-> "undefined", noon_elevation |-> 0 - 1] }

----------------------------------------------------------------------------
(* Main.__init__: the widget is built and update_data() has run once *)

Init ==
    \E units \in UnitChoices :
        /\ widget = HeadUpDisplay(units)
        /\ display = update_data(HeadUpDisplay(units), BlankDisplay, NoAstral).display
        /\ data = None
        /\ pc = "constructed"
        /\ watching = FALSE
        /\ err = "none"
        /\ delivered = 0
        /\ dispatched = <<>>
        /\ sun = None

----------------------------------------------------------------------------
(* Main.run *)

\* gps.gps(...) connects.
RunConnect ==
    /\ pc = "constructed"
    /\ pc' = "startup"
    /\ UNCHANGED <<widget, display, data, watching, err, delivered, dispatched, sun>>

\* gps.gps(...) raises SocketError: the dialog is shown and run() returns.
RunSocketError ==
    /\ pc = "constructed"
    /\ pc' = "exited"
    /\ UNCHANGED <<widget, display, data, watching, err, delivered, dispatched, sun>>

\* One iteration of "for report in daemon".  An exception of update_speed or
\* update_sky is caught by nothing in run(): the process ends.  After the first
\* TPV report (mode >= 0) the loop is left, the watches are installed and
\* Gtk.main() runs.
RunLoopOver(source) ==
    /\ pc = "startup"
    /\ delivered < MaxReports
    /\ \E report \in source, env \in Envs :
         LET r == Dispatch(widget, display, report, env, sun)
         IN  /\ data' = Some(report)
             /\ delivered' = delivered + 1
             /\ dispatched' = IF IsDispatched(report)
                              THEN Append(dispatched, delivered + 1)
                              ELSE dispatched
             /\ widget' = r.widget
             /\ display' = r.display
             /\ err' = r.err
             /\ sun' = r.sun
             /\ pc' = IF r.err # "none"
                      THEN "crashed"
                      ELSE IF report.class = "TPV" /\ report.mode[1] >= 0
                           THEN "main"
                           ELSE "startup"
             /\ watching' = (pc' = "main")

RunLoop == RunLoopOver(Reports)

\* daemon.read() fails inside the iterator: StopIteration ends the loop.
RunLoopEnd ==
    /\ pc = "startup"
    /\ pc' = "main"
    /\ watching' = TRUE
    /\ UNCHANGED <<widget, display, data, err, delivered, dispatched, sun>>

----------------------------------------------------------------------------
(* The callbacks of the Gtk main loop *)

\* handle_response, daemon.read() succeeds.  An exception leaves the callback
\* without a return value: GLib removes the watch, the window stays.
handle_response ==
    /\ pc = "main"
    /\ watching
    /\ delivered < MaxReports
    /\ \E report \in Reports, env \in Envs :
         LET r == Dispatch(widget, display, report, env, sun)
         IN  /\ data' = Some(report)
             /\ delivered' = delivered + 1
             /\ dispatched' = IF IsDispatched(report)
                              THEN Append(dispatched, delivered + 1)
                              ELSE dispatched
             /\ widget' = r.widget
             /\ display' = r.display
             /\ err' = r.err
             /\ sun' = r.sun
             /\ watching' = (r.err = "none")
             /\ pc' = pc

\* handle_response, daemon.read() returns -1: handle_hangup() shows its dialog
\* and calls Gtk.main_quit(); then the class test runs on daemon.data, which
\* still is the previous report.  The main loop ends when the callback returns.
handle_response_ReadFailed ==
    /\ pc = "main"
    /\ watching
    /\ \E env \in Envs :
         LET r == IF data = None
                  THEN [widget |-> widget, display |-> display,
                        err |-> "TypeError", sun |-> sun]
                  ELSE Dispatch(widget, display, data[1], env, sun)
         IN  /\ dispatched' = IF data # None /\ IsDispatched(data[1])
                              THEN Append(dispatched, delivered)
                              ELSE dispatched
             /\ widget' = r.widget
             /\ display' = r.display
             /\ err' = r.err
             /\ sun' = r.sun
    /\ pc' = "exited"
    /\ watching' = FALSE
    /\ UNCHANGED <<data, delivered>>

\* The IO_ERR / IO_HUP watch: the dialog, then Gtk.main_quit().
handle_hangup ==
    /\ pc = "main"
    /\ pc' = "exited"
    /\ watching' = FALSE
    /\ UNCHANGED <<widget, display, data, err, delivered, dispatched, sun>>

\* The window is closed: Gtk.main_quit().
destroy ==
    /\ pc = "main"
    /\ pc' = "exited"
    /\ watching' = FALSE
    /\ UNCHANGED <<widget, display, data, err, delivered, dispatched, sun>>

Next ==
    \/ RunConnect
    \/ RunSocketError
    \/ RunLoop
    \/ RunLoopEnd
    \/ handle_response
    \/ handle_response_ReadFailed
    \/ handle_hangup
    \/ destroy

Spec == Init /\ [][Next]_vars

----------------------------------------------------------------------------
(* The first TPV report, over every status, mode and heading.               *)
(* run() leaves its loop after the first TPV report, so these behaviours     *)
(* are the start of a run whose first report is a TPV report.               *)

\* Every heading of [0, 360) in half degrees.
Headings == 0..719

FirstTPV(mode, status, track) ==
    [AbsentReport("TPV") EXCEPT
        !.mode = Some(mode), !.status = Some(status), !.speed = Some(5),
        !.track = Some(track), !.time = Some("2020-01-01T12:00:00.000Z")]

FirstTPVReports ==
    {FirstTPV(mode, status, 0) : mode \in 0..3, status \in 0..9}
    \cup {FirstTPV(mode, 2, track) : mode \in 0..3, track \in Headings}

RunFirstTPV == RunLoopOver(FirstTPVReports)

NextFirst ==
    \/ RunConnect
    \/ RunFirstTPV

SpecFirst == Init /\ [][NextFirst]_vars

----------------------------------------------------------------------------
(* Properties *)

\* The process is running: run() has neither returned nor died.
Alive == pc \in {"constructed", "startup", "main"}

\* The step passes a report to update_speed or update_sky.
DispatchStep == dispatched' # dispatched

TelemetryFields ==
    {"last_mode", "last_status", "last_speed", "last_heading", "latitude",
     "longitude", "altitude"}

\* C1: a TPV report leaves skyview and every field it does not carry as they
\* were, and sets mode and every field it carries to the reported value.
TPVFrame(w, w2, report) ==
    /\ w2.skyview = w.skyview
    /\ report.mode = None => w2.last_mode = w.last_mode
    /\ report.status = None => w2.last_status = w.last_status
    /\ report.speed = None => w2.last_speed = w.last_speed
    /\ report.track = None => w2.last_heading = w.last_heading
    /\ report.lat = None => w2.latitude = w.latitude
    /\ report.lon = None => w2.longitude = w.longitude
    /\ report.altHAE = None => w2.altitude = w.altitude
    /\ report.mode # None =>
          /\ w2.last_mode = report.mode[1]
          /\ report.status # None => w2.last_status = report.status[1]
          /\ report.speed # None => w2.last_speed = report.speed[1]
          /\ report.track # None => w2.last_heading = report.track[1]
          /\ report.lat # None => w2.latitude = report.lat
          /\ report.lon # None => w2.longitude = report.lon
          /\ report.altHAE # None => w2.altitude = report.altHAE

\* C1: a SKY report replaces skyview by the report and leaves the rest.
SKYFrame(w, w2, report) ==
    /\ w2.skyview = Some(report)
    /\ \A f \in TelemetryFields : w2[f] = w[f]

\* C1: every report changes only the telemetry fields it carries: a TPV report
\* sets mode and the fields present in it, leaving the absent ones and skyview;
\* a SKY report replaces skyview and leaves the seven TPV fields.
C1_ReportChangesOnlyItsFields ==
    [][DispatchStep =>
          IF data'[1].class = "TPV"
          THEN TPVFrame(widget, widget', data'[1])
          ELSE SKYFrame(widget, widget', data'[1])]_vars

\* C1 witness: after a full TPV report, a TPV report without lat was merged:
\* the latitude is still the first report's, the rest is the second report's.
C1_Witness ==
    /\ pc = "main"
    /\ err = "none"
    /\ Len(dispatched) = 2
    /\ data = Some(Without(NextTPV, "lat"))
    /\ widget.latitude = Some(45)
    /\ widget.longitude = Some(15)
    /\ widget.last_speed = 20

\* C2: processing a report with optional fields absent never raises (the polar
\* branch of is_day, which is C7's, set aside).
C2_SparseReportsNeverRaise ==
    (dispatched # <<>> /\ ~(sun # None /\ sun[1].daylight = "undefined"))
        => err = "none"

\* The labels a complete update_data() would show for the widget.
Recomputed ==
    update_data(widget, display, IF sun = None THEN NoAstral ELSE sun[1])

\* C3: every report passed to update_speed or update_sky is the one gpsd has
\* just delivered, so the reports are processed once each and in delivery
\* order; and when a report is applied, the labels are those of a complete
\* recomputation after the previous one.
C3_InOrderAndRecomputed ==
    [][DispatchStep =>
          /\ delivered' = delivered + 1
          /\ dispatched' = Append(dispatched, delivered')
          /\ dispatched # <<>> =>
                /\ Recomputed.err = "none"
                /\ display = Recomputed.display]_vars

\* C4: while the stored mode is Unknown or NoFix, the speed label and the
\* direction label show "-".
C4_NoFixShowsDash ==
    (Alive /\ widget.last_mode \in {0, 1}) =>
        /\ display.Speed.text = "-"
        /\ display.Heading.text = "-"

\* The status labels of the fix text, as the specification lists them.
StatusLabel(status) ==
    CASE status = 0 -> ""
      [] status = 1 -> "Normal"
      [] status = 2 -> "DGPS"
      [] status = 3 -> "RTK Fixed"
      [] status = 4 -> "RTK Floating"
      [] status = 5 -> "DR"
      [] status = 6 -> "GNSS+DR"
      [] status = 7 -> "Time (surveyed)"
      [] status = 8 -> "Simulated"
      [] status = 9 -> "P(Y)"

\* C5: the status/mode part of the fix text is the status label followed by
\* " 2D fix" or " 3D fix" for mode 2 or 3, "No fix" for mode 1 and
\* "Unknown fix" for mode 0, whatever the status.
C5_StatusModeText ==
    display.Fix.text.status_mode =
        CASE widget.last_mode = 2 -> StatusLabel(widget.last_status) \o " 2D fix"
          [] widget.last_mode = 3 -> StatusLabel(widget.last_status) \o " 3D fix"
          [] widget.last_mode = 1 -> "No fix"
          [] widget.last_mode = 0 -> "Unknown fix"

\* C5 witness: the first report had status 2 and mode 3; the text is "DGPS 3D fix".
C5_Witness ==
    /\ pc = "main"
    /\ widget.last_status = 2
    /\ widget.last_mode = 3
    /\ data # None /\ data[1].status = Some(2) /\ data[1].mode = Some(3)
    /\ display.Fix.text.status_mode = "DGPS 3D fix"

Compass == <<"N", "NE", "E", "SE", "S", "SW", "W", "NW">>

\* C6: with a 2D or 3D fix the direction label is the compass point at index
\* floor((heading + 22.5) / 45) mod 8; headings from 337.5 give "N" and a
\* heading on a boundary 22.5 + 45k gives the higher point.
C6_CompassBucket ==
    widget.last_mode \in {2, 3} =>
        LET h == widget.last_heading
        IN  /\ display.Heading.text = Compass[(((h + 45) \div 90) % 8) + 1]
            /\ h >= 675 => display.Heading.text = "N"
            /\ \A k \in 0..7 :
                  h = 45 + 90 * k => display.Heading.text = Compass[((k + 1) % 8) + 1]

\* C6 witness: a 3D fix with heading 337.5 degrees, shown as "N".
C6_Witness ==
    /\ pc = "main"
    /\ widget.last_mode = 3
    /\ widget.last_heading = 675
    /\ data # None /\ data[1].track = Some(675)
    /\ display.Heading.text = "N"

\* C7: when the position is known and astral has no sunrise or sunset, is_day
\* raises nothing and the theme is Night for a noon elevation below 0, Day
\* otherwise.
C7_PolarFallbackClassifies ==
    (sun # None /\ sun[1].daylight = "undefined") =>
        /\ err = "none"
        /\ display.Heading.color =
              IF sun[1].noon_elevation < 0 THEN NightColors.color ELSE DayColors.color

\* The error estimates the next update_data() will read.
StoredEph(w) == IF w.last_tpv = None THEN None ELSE w.last_tpv[1].eph

StoredEpv(w) == IF w.last_tpv = None THEN None ELSE w.last_tpv[1].epv

\* C8: a TPV report without eph (epv) leaves the stored eph (epv) as it was.
C8_ErrorEstimatesKept ==
    [][(DispatchStep /\ data'[1].class = "TPV") =>
          /\ data'[1].eph = None => StoredEph(widget') = StoredEph(widget)
          /\ data'[1].epv = None => StoredEpv(widget') = StoredEpv(widget)]_vars

\* The satellite list of the current SKY report (empty when there is none).
CurrentSatellites ==
    IF widget.skyview # None /\ widget.skyview[1].satellites # None
    THEN widget.skyview[1].satellites[1]
    ELSE <<>>

\* C9: after a complete recomputation, the fix text has the constellation line
\* whenever a constellation has a used satellite, and the "All SNR" line
\* whenever an entry has ss, with or without uSat and nSat.
C9_LinesIndependentOfCounts ==
    (Alive /\ err = "none" /\ dispatched # <<>>) =>
        LET sats == CurrentSatellites
        IN  /\ (\E i \in DOMAIN sats : sats[i].gnssid # None /\ sats[i].used)
                  => display.Fix.text.breakdown # <<>>
            /\ (\E i \in DOMAIN sats : sats[i].ss # None)
                  => display.Fix.text.all_snr # None

\* PRN -> ss over the entries of I (the PRNs of a report are distinct).
SnrOf(sats, I) ==
    [p \in {sats[i].PRN : i \in I} |->
        sats[CHOOSE i \in I : sats[i].PRN = p].ss[1]]

\* C10: for a satellite report with uSat and nSat (update_data() builds the
\* maps for no other), all_snr maps PRN to ss for every entry with ss, used or
\* not, with or without gnssid; used_snr is its restriction to the used entries.
C10_SnrMapsCoverEveryEntry ==
    (widget.skyview # None /\ widget.skyview[1].uSat # None
     /\ widget.skyview[1].nSat # None) =>
        LET sats == CurrentSatellites
            withSs == {i \in DOMAIN sats : sats[i].ss # None}
        IN  /\ SnrMaps(widget.skyview).all = SnrOf(sats, withSs)
            /\ SnrMaps(widget.skyview).used
                   = SnrOf(sats, {i \in withSs : sats[i].used})

\* C11: a step of the main loop in which gpsd delivers no report (the read in
\* handle_response fails, or the hangup or destroy callback runs) passes no
\* report to update_speed or update_sky and leaves the telemetry as it was, so
\* no report is applied twice.
C11_FailedReadDispatchesNothing ==
    [][(pc = "main" /\ delivered' = delivered) =>
          /\ dispatched' = dispatched
          /\ widget' = widget]_vars

====
